---- MODULE Spec2Model ----
(***************************************************************************)
(* Model of the receipt parser (src/src/services/parser.service.ts, the    *)
(* ReceiptParser of lines 1-155) and of the routes that store and serve     *)
(* its records (src/unnamed/part_000).                                      *)
(*                                                                         *)
(* A JavaScript string is a sequence of one-character strings.  A number   *)
(* is an exact decimal [int |-> digits, frac |-> digits] without leading   *)
(* zeros in int and without trailing zeros in frac, so two numbers are     *)
(* equal exactly when their records are equal; the rounding of IEEE        *)
(* doubles is not modelled.  An optional field is <<>> when absent and     *)
(* <<v>> when present.                                                     *)
(***************************************************************************)
EXTENDS Integers, Sequences, FiniteSets, TLC

VARIABLES
    currentYear,  \* the year the environment's clock shows: new Date().getFullYear()
    text,         \* the argument of the parsePrice call
    price,        \* what parsePrice returned
    dateStr,      \* the argument of the isValidDate call
    valid,        \* what isValidDate returned
    rawText,      \* the text parse is called on, once or again and again
    data,         \* the record the last parse call returned
    log,          \* the parse calls made: <<[year, data], ...>>
    pc,           \* "idle" before a parsePrice / isValidDate call, "done" after
    receipts,     \* the Map of the router: <<[key, value], ...>> in insertion order
    reqs,         \* the requests received, each with its handler's position and answer
    uploads,      \* the requests whose uploaded file is on the disk
    nextId        \* the ids randomUUID has given out so far are 1..nextId - 1

\* the variables of the router
http == <<receipts, reqs, uploads, nextId>>

vars == <<currentYear, text, price, dateStr, valid, rawText, data, log, pc,
          receipts, reqs, uploads, nextId>>

-----------------------------------------------------------------------------
(* Bounds of the model *)

MaxGroups == 3
MinYear == 2024
MaxYear == 2027
MaxLines == 3
MaxCalls == 3
MaxRequests == 4

-----------------------------------------------------------------------------
(* Characters *)

Digits == {"0", "1", "2", "3", "4", "5", "6", "7", "8", "9"}

DigitSeq == <<"0", "1", "2", "3", "4", "5", "6", "7", "8", "9">>

LowerSeq == <<"a", "b", "c", "d", "e", "f", "g", "h", "i", "j", "k", "l", "m",
              "n", "o", "p", "q", "r", "s", "t", "u", "v", "w", "x", "y", "z">>

UpperSeq == <<"A", "B", "C", "D", "E", "F", "G", "H", "I", "J", "K", "L", "M",
              "N", "O", "P", "Q", "R", "S", "T", "U", "V", "W", "X", "Y", "Z">>

LowerLetters == {LowerSeq[i] : i \in 1..26}

UpperLetters == {UpperSeq[i] : i \in 1..26}

\* [a-zA-Z0-9]
AlphaNum == LowerLetters \cup UpperLetters \cup Digits

\* \w of a regular expression
WordChars == AlphaNum \cup {"_"}

\* \s of a regular expression, and what trim() removes (the ASCII part)
WhiteSpace == {" ", "\t", "\n", "\r", "\f"}

UpperOf == [c \in LowerLetters |-> UpperSeq[CHOOSE i \in 1..26 : LowerSeq[i] = c]]

LowerOf == [c \in UpperLetters |-> LowerSeq[CHOOSE i \in 1..26 : UpperSeq[i] = c]]

ToUpperChar(c) == IF c \in LowerLetters THEN UpperOf[c] ELSE c

ToLowerChar(c) == IF c \in UpperLetters THEN LowerOf[c] ELSE c

\* String.prototype.toUpperCase
ToUpperCase(s) == [i \in 1..Len(s) |-> ToUpperChar(s[i])]

-----------------------------------------------------------------------------
(* Strings *)

\* the least element of a non-empty set of integers
Least(S) == CHOOSE i \in S : \A j \in S : i <= j

\* the character at position i, "" past the end
At(s, i) == IF i >= 1 /\ i <= Len(s) THEN s[i] ELSE ""

\* the strings of xs joined, sep between two of them
RECURSIVE Join(_, _)
Join(xs, sep) ==
    IF xs = <<>> THEN <<>>
    ELSE IF Len(xs) = 1 THEN xs[1]
    ELSE xs[1] \o sep \o Join(Tail(xs), sep)

\* String.prototype.includes
Includes(s, w) ==
    \/ w = <<>>
    \/ \E i \in 1..(Len(s) - Len(w) + 1) :
          s[i] = w[1] /\ SubSeq(s, i, i + Len(w) - 1) = w

\* String.prototype.lastIndexOf, counted from 1; 0 when c does not occur
LastIndexOf(s, c) ==
    LET at == {i \in 1..Len(s) : s[i] = c}
    IN  IF at = {} THEN 0 ELSE CHOOSE i \in at : \A j \in at : j <= i

\* s.replace(/c/g, '')
RemoveAll(s, c) == SelectSeq(s, LAMBDA x : x # c)

\* s.replace(/c/g, d)
ReplaceAll(s, c, d) == [i \in 1..Len(s) |-> IF s[i] = c THEN d ELSE s[i]]

\* s.replace(c, d) with a string pattern: the first occurrence only
ReplaceFirst(s, c, d) ==
    LET at == {i \in 1..Len(s) : s[i] = c}
    IN  IF at = {} THEN s
        ELSE LET f == CHOOSE i \in at : \A j \in at : i <= j
             IN  [i \in 1..Len(s) |-> IF i = f THEN d ELSE s[i]]

\* the length of the run of digits of s that starts at position i
RECURSIVE DigitRun(_, _)
DigitRun(s, i) == IF At(s, i) \in Digits THEN 1 + DigitRun(s, i + 1) ELSE 0

-----------------------------------------------------------------------------
(* Numbers *)

RECURSIVE StripLeadingZeros(_)
StripLeadingZeros(d) ==
    IF d # <<>> /\ Head(d) = "0" THEN StripLeadingZeros(Tail(d)) ELSE d

RECURSIVE StripTrailingZeros(_)
StripTrailingZeros(d) ==
    IF d # <<>> /\ d[Len(d)] = "0"
    THEN StripTrailingZeros(SubSeq(d, 1, Len(d) - 1)) ELSE d

\* the number whose decimal numeral is i.f
MkNum(i, f) == [int |-> StripLeadingZeros(i), frac |-> StripTrailingZeros(f)]

Zero == MkNum(<<>>, <<>>)

NaN == [int |-> <<"N", "a", "N">>, frac |-> <<>>]

DigitVal(c) == (CHOOSE i \in 1..10 : DigitSeq[i] = c) - 1

\* lexicographic order of two digit strings of one length
RECURSIVE LexLess(_, _)
LexLess(a, b) ==
    IF a = <<>> \/ b = <<>> THEN a = <<>> /\ b # <<>>
    ELSE IF Head(a) # Head(b) THEN DigitVal(Head(a)) < DigitVal(Head(b))
    ELSE LexLess(Tail(a), Tail(b))

\* x < y
NumLess(x, y) ==
    IF Len(x.int) # Len(y.int) THEN Len(x.int) < Len(y.int)
    ELSE IF x.int # y.int THEN LexLess(x.int, y.int)
    ELSE LexLess(x.frac, y.frac)

\* Math.max of a non-empty list
RECURSIVE MathMax(_)
MathMax(ns) ==
    IF Len(ns) = 1 THEN ns[1]
    ELSE LET m == MathMax(Tail(ns))
         IN  IF NumLess(ns[1], m) THEN m ELSE ns[1]

\* parseFloat of a string of digits, '.' and ',': the longest prefix that is a
\* decimal literal (digits, then optionally a point and digits), NaN when
\* that prefix holds no digit
ParseFloat(s) ==
    LET a == DigitRun(s, 1)
        b == IF At(s, a + 1) = "." THEN DigitRun(s, a + 2) ELSE 0
    IN  IF a = 0 /\ b = 0 THEN NaN
        ELSE MkNum(SubSeq(s, 1, a), SubSeq(s, a + 2, a + 1 + b))

\* parseInt of a string of digits
RECURSIVE ParseInt(_)
ParseInt(d) ==
    IF d = <<>> THEN 0
    ELSE 10 * ParseInt(SubSeq(d, 1, Len(d) - 1)) + DigitVal(d[Len(d)])

\* `${n}` of a natural number
RECURSIVE IntToString(_)
IntToString(n) ==
    IF n < 10 THEN <<DigitSeq[n + 1]>>
    ELSE Append(IntToString(n \div 10), DigitSeq[(n % 10) + 1])

-----------------------------------------------------------------------------
(* Optional values *)

Absent == <<>>

Some(v) == <<v>>

-----------------------------------------------------------------------------
(* ReceiptParser.parsePrice *)

\* text.replace(/[^\d.,]/g, '').trim(), then .replace(/[.,]+$/, '')
CleanText(t) ==
    LET kept == SelectSeq(t, LAMBDA c : c \in Digits \cup {".", ","})
        ds == {i \in 1..Len(kept) : kept[i] \in Digits}
        n == IF ds = {} THEN 0 ELSE CHOOSE i \in ds : \A j \in ds : j <= i
    IN  SubSeq(kept, 1, n)

\* the three-digit rule written for the point and not for the separator found
NormalizedNumPointOnly(cleanText) ==
    LET hasComma == Includes(cleanText, <<",">>)
        hasDot == Includes(cleanText, <<".">>)
    IN  IF hasComma /\ hasDot
        THEN IF LastIndexOf(cleanText, ",") > LastIndexOf(cleanText, ".")
             THEN ReplaceFirst(RemoveAll(cleanText, "."), ",", ".")
             ELSE RemoveAll(cleanText, ",")
        ELSE IF hasComma \/ hasDot
        THEN LET lastPartLength == Len(cleanText) - LastIndexOf(cleanText, ".")
             IN  IF lastPartLength = 3
                 THEN RemoveAll(cleanText, ".")
                 ELSE ReplaceAll(cleanText, ",", ".")
        ELSE cleanText

\* normalizedNum, from a cleanText that is not empty
NormalizedNum(cleanText) ==
    LET hasComma == Includes(cleanText, <<",">>)
        hasDot == Includes(cleanText, <<".">>)
    IN  IF hasComma /\ hasDot
        THEN IF LastIndexOf(cleanText, ",") > LastIndexOf(cleanText, ".")
             THEN ReplaceFirst(RemoveAll(cleanText, "."), ",", ".")
             ELSE RemoveAll(cleanText, ",")
        ELSE IF hasComma \/ hasDot
        THEN LET separator == IF hasComma THEN "," ELSE "."
                 lastPartLength == Len(cleanText) - LastIndexOf(cleanText, separator)
             IN  IF lastPartLength = 3
                 THEN RemoveAll(cleanText, separator)
                 ELSE ReplaceAll(cleanText, ",", ".")
        ELSE cleanText

ParsePrice(t) ==
    LET cleanText == CleanText(t)
    IN  IF cleanText = <<>> THEN Absent
        ELSE LET number == ParseFloat(NormalizedNum(cleanText))
             IN  IF number = NaN THEN Absent ELSE Some(number)

-----------------------------------------------------------------------------
(* The regular expressions of ReceiptParser.parse *)

Min(a, b) == IF a < b THEN a ELSE b

\* the pieces of s from position i on: up to the next c, then those after it
RECURSIVE SplitFrom(_, _, _)
SplitFrom(s, c, i) ==
    LET j == Least({q \in i..Len(s) : s[q] = c} \cup {Len(s) + 1})
    IN  IF j > Len(s) THEN <<SubSeq(s, i, Len(s))>>
        ELSE <<SubSeq(s, i, j - 1)>> \o SplitFrom(s, c, j + 1)

\* String.prototype.split with a one-character separator
Split(s, c) == SplitFrom(s, c, 1)

\* String.prototype.trim
Trim(s) ==
    LET n == Len(s)
        first == Least({i \in 1..n : s[i] \notin WhiteSpace} \cup {n + 1})
        last == n + 1 - Least({k \in 1..n : s[n + 1 - k] \notin WhiteSpace} \cup {n + 1})
    IN  SubSeq(s, first, last)

StartsWith(s, w) == Len(s) >= Len(w) /\ SubSeq(s, 1, Len(w)) = w

\* the first position at or after i that holds no white space, Len(s) + 1 when
\* none does: \s* from i
SkipSpace(s, i) ==
    Least({q \in i..Len(s) : s[q] \notin WhiteSpace} \cup {Len(s) + 1})

\* word w (in lower case) stands at position i of s, whatever the case of s: flag i
KeywordAt(s, i, w) ==
    /\ i + Len(w) - 1 <= Len(s)
    /\ \A k \in 1..Len(w) : ToLowerChar(s[i + k - 1]) = w[k]

\* the length of the first alternative of ws that stands at position i, 0 when none
AlternationAt(s, i, ws) ==
    LET c == ToLowerChar(At(s, i))
        found == {n \in 1..Len(ws) : ws[n][1] = c /\ KeywordAt(s, i, ws[n])}
    IN  IF found = {} THEN 0 ELSE Len(ws[Least(found)])

\* dateRegex = /(\d{1,4}[-/. ]\d{1,2}[-/. ]\d{2,4})/
DateSeparators == {"-", "/", ".", " "}

\* the position after the match of dateRegex that starts at i, 0 when none starts there
DateMatchEnd(s, i) ==
    LET a == DigitRun(s, i)
        b == DigitRun(s, i + a + 1)
        c == DigitRun(s, i + a + b + 2)
    IN  IF /\ a >= 1 /\ a <= 4 /\ At(s, i + a) \in DateSeparators
           /\ b >= 1 /\ b <= 2 /\ At(s, i + a + b + 1) \in DateSeparators
           /\ c >= 2
        THEN i + a + b + 2 + Min(c, 4)
        ELSE 0

\* the matches a global regular expression finds in s from position i on, end[p]
\* being the position after the match that starts at p (0 when none starts
\* there): the leftmost match, then the matches from its end on
RECURSIVE GlobalMatches(_, _, _)
GlobalMatches(s, end, i) ==
    LET starts == {p \in i..Len(s) : end[p] # 0}
    IN  IF starts = {} THEN <<>>
        ELSE LET p == Least(starts)
             IN  <<SubSeq(s, p, end[p] - 1)>> \o GlobalMatches(s, end, end[p])

\* rawText.match(new RegExp(dateRegex, 'g')) || []
AllDateMatches(s) ==
    GlobalMatches(s, [p \in 1..Len(s) |-> DateMatchEnd(s, p)], 1)

\* dateStr.match(/(\d{4})/): the first four digits in a row
FourDigitMatch(s) ==
    LET at == {i \in 1..(Len(s) - 3) : \A k \in 0..3 : s[i + k] \in Digits}
    IN  IF at = {} THEN Absent
        ELSE LET f == CHOOSE i \in at : \A j \in at : i <= j
             IN  Some(SubSeq(s, f, f + 3))

\* badDate.replace(/202[6-9]/, y)
ReplaceBadYear(s, y) ==
    LET at == {i \in 1..(Len(s) - 3) :
                 /\ SubSeq(s, i, i + 2) = <<"2", "0", "2">>
                 /\ s[i + 3] \in {"6", "7", "8", "9"}}
    IN  IF at = {} THEN s
        ELSE LET f == CHOOSE i \in at : \A j \in at : i <= j
             IN  SubSeq(s, 1, f - 1) \o y \o SubSeq(s, f + 4, Len(s))

\* numberPattern = ([0-9]{1,3}(?:[.,][0-9]{3})*(?:[.,][0-9]+)?)
Separators == {".", ","}

\* how many times (?:[.,][0-9]{3}) matches in a row from position p
RECURSIVE GroupRun(_, _)
GroupRun(s, p) ==
    IF At(s, p) \in Separators /\ DigitRun(s, p + 1) >= 3
    THEN 1 + GroupRun(s, p + 4) ELSE 0

\* the position after (?:[.,][0-9]+)? matched greedily from q
OptionalEnd(s, q) ==
    IF At(s, q) \in Separators /\ DigitRun(s, q + 1) >= 1
    THEN q + 1 + DigitRun(s, q + 1) ELSE q

\* the position after the greedy match of numberPattern that starts at i, where
\* a digit stands
NumberEnd(s, i) ==
    LET k == Min(3, DigitRun(s, i))
        p == i + k + 4 * GroupRun(s, i + k)
    IN  OptionalEnd(s, p)

\* \b after a match that ends with a digit, e being the position after it
BoundaryAfter(s, e) == At(s, e) \notin WordChars

\* \b before a match that starts with a digit at position i
BoundaryBefore(s, i) == At(s, i - 1) \notin WordChars

\* (?:[.,][0-9]+)?\b from q, a digit standing before q: the position after the
\* match, 0 when there is none.  [0-9]+ given back a digit ends before a digit,
\* where \b fails, so only its greedy match and the empty match can do.
OptionalThenBoundary(s, q) ==
    IF BoundaryAfter(s, OptionalEnd(s, q)) THEN OptionalEnd(s, q)
    ELSE IF BoundaryAfter(s, q) THEN q
    ELSE 0

\* (?:[.,][0-9]{3})*: n repetitions from p first, then fewer
RECURSIVE GroupsThenBoundary(_, _, _)
GroupsThenBoundary(s, p, n) ==
    LET e == OptionalThenBoundary(s, p + 4 * n)
    IN  IF e # 0 THEN e
        ELSE IF n = 0 THEN 0
        ELSE GroupsThenBoundary(s, p, n - 1)

\* [0-9]{1,3}: k digits from i first, then fewer
RECURSIVE DigitsThenBoundary(_, _, _)
DigitsThenBoundary(s, i, k) ==
    IF k = 0 THEN 0
    ELSE LET e == GroupsThenBoundary(s, i + k, GroupRun(s, i + k))
         IN  IF e # 0 THEN e ELSE DigitsThenBoundary(s, i, k - 1)

\* the position after the match of \bnumberPattern\b that starts at i, 0 when none
BoundedNumberEnd(s, i) ==
    IF At(s, i) \in Digits /\ BoundaryBefore(s, i)
    THEN DigitsThenBoundary(s, i, Min(3, DigitRun(s, i)))
    ELSE 0

\* rawText.match(new RegExp(`\\b${numberPattern}\\b`, 'g')) || []
FallbackMatches(s) ==
    GlobalMatches(s, [p \in 1..Len(s) |-> BoundedNumberEnd(s, p)], 1)

\* the first position at or after p that holds a digit or a line feed, Len(s) + 1
\* when none does: [^0-9\n]* from p
SkipToDigitOrLineEnd(s, p) ==
    Least({q \in p..Len(s) : s[q] \in Digits \/ s[q] = "\n"} \cup {Len(s) + 1})

\* (?:keywords)[^0-9\n]*[:$]?\s*numberPattern, flag i, matched at position i: the
\* captured token, absent when there is no match at i.  [^0-9\n]* stops at the
\* line's first digit, where the number starts, or at the end of the line; from
\* there only \s* can go on, over white space and line feeds, up to a digit.
AmountMatchAt(s, i, keywords) ==
    LET k == AlternationAt(s, i, keywords)
        e == SkipToDigitOrLineEnd(s, i + k)
        q == SkipSpace(s, e)
    IN  IF k # 0 /\ At(s, q) \in Digits
        THEN Some(SubSeq(s, q, NumberEnd(s, q) - 1))
        ELSE Absent

\* rawText.match(regex): the token of the leftmost match
AmountMatch(s, keywords) ==
    LET starts == {i \in 1..Len(s) :
                     /\ AlternationAt(s, i, keywords) # 0
                     /\ AmountMatchAt(s, i, keywords) # Absent}
    IN  IF starts = {} THEN Absent ELSE AmountMatchAt(s, Least(starts), keywords)

TaxKeywords ==
    << <<"t", "a", "x">>, <<"i", "v", "a">>,
       <<"i", "m", "p", "u", "e", "s", "t", "o">>,
       <<"i", "t", "b", "m", "s">>, <<"v", "a", "t">> >>

SubtotalKeywords ==
    << <<"s", "u", "b", "t", "o", "t", "a", "l">>,
       <<"s", "u", "b", "-", "t", "o", "t", "a", "l">> >>

TotalKeywords ==
    << <<"t", "o", "t", "a", "l">>, <<"p", "a", "g", "a", "r">>,
       <<"a", "m", "o", "u", "n", "t">>, <<"s", "u", "m", "a">> >>

InvoiceKeywords ==
    << <<"f", "a", "c", "t", "u", "r", "a">>, <<"i", "n", "v", "o", "i", "c", "e">>,
       <<"t", "i", "c", "k", "e", "t">>, <<"f", "o", "l", "i", "o">>,
       <<"c", "h", "k">>, <<"n", "u", "m", "e", "r", "o">> >>

\* [A-Z0-9-] under flag i
InvoiceChars == AlphaNum \cup {"-"}

\* the length of the run of token characters that starts at position i
InvoiceRun(s, i) ==
    Least({q \in i..Len(s) : s[q] \notin InvoiceChars} \cup {Len(s) + 1}) - i

\* /(?:factura|invoice|ticket|folio|chk|numero)\s*[:#.]?\s*([A-Z0-9-]+)/i at position i
InvoiceMatchAt(s, i) ==
    LET k == AlternationAt(s, i, InvoiceKeywords)
        j == SkipSpace(s, i + k)
        q == IF At(s, j) \in {":", "#", "."} THEN SkipSpace(s, j + 1) ELSE j
        n == InvoiceRun(s, q)
    IN  IF k # 0 /\ n > 0 THEN Some(SubSeq(s, q, q + n - 1)) ELSE Absent

\* rawText.match(regex): the token of the leftmost match
InvoiceMatch(s) ==
    LET starts == {i \in 1..Len(s) :
                     /\ AlternationAt(s, i, InvoiceKeywords) # 0
                     /\ InvoiceMatchAt(s, i) # Absent}
    IN  IF starts = {} THEN Absent ELSE InvoiceMatchAt(s, Least(starts))

-----------------------------------------------------------------------------
(* ReceiptParser.isValidDate *)

\* new Date().getFullYear()
GetFullYear == currentYear

\* the year after the current one not allowed
IsValidDateNoSkew(d) ==
    LET match == FourDigitMatch(d)
    IN  IF match = Absent THEN FALSE
        ELSE LET year == ParseInt(match[1])
             IN  year >= 2000 /\ year <= GetFullYear

IsValidDate(d) ==
    LET match == FourDigitMatch(d)
    IN  IF match = Absent THEN FALSE
        ELSE LET year == ParseInt(match[1])
             IN  year >= 2000 /\ year <= GetFullYear + 1

-----------------------------------------------------------------------------
(* ReceiptParser.parse *)

\* a ReceiptData with every optional field absent
NoData ==
    [rawText |-> <<>>, vendorName |-> Absent, date |-> Absent,
     invoiceNumber |-> Absent, amount |-> Absent, subtotalAmount |-> Absent,
     taxAmount |-> Absent]

\* one record shared by the calls, its fields left over from the call before
NewDataShared(t) == [data EXCEPT !.rawText = t]

\* const data: ReceiptData = { rawText }
NewData(t) == [NoData EXCEPT !.rawText = t]

\* !x of an optional string: undefined and '' are falsy
FalsyString(x) == x = Absent \/ x = Some(<<>>)

\* !x of an optional number: undefined and 0 are falsy
FalsyNumber(x) == x = Absent \/ x = Some(Zero)

LineKept(line) == Len(line) > 3 /\ \E i \in 1..Len(line) : line[i] \in AlphaNum

\* rawText.split('\n').map(line => line.trim()).filter(...)
Lines(t) ==
    LET split == Split(t, "\n")
        trimmed == [i \in 1..Len(split) |-> Trim(split[i])]
    IN  SelectSeq(trimmed, LineKept)

SkipWords ==
    << <<"B", "I", "E", "N", "V", "E", "N", "I", "D", "O">>,
       <<"W", "E", "L", "C", "O", "M", "E">>,
       <<"F", "A", "C", "T", "U", "R", "A">>,
       <<"I", "N", "V", "O", "I", "C", "E">>,
       <<"S", "E", "N", "I", "A", "T">>,
       <<"D", "G", "I">>,
       <<"R", "U", "C">>,
       <<"R", "I", "F">>,
       <<"N", "I", "T">>,
       <<"F", "I", "S", "C", "A", "L">>,
       <<"O", "R", "I", "G", "I", "N", "A", "L">>,
       <<"C", "O", "P", "I", "A">>,
       <<"C", "L", "I", "E", "N", "T", "E">> >>

AddressWords == << <<"C", "A", "L", "L", "E">>, <<"A", "V">>, <<"J", "R">> >>

\* upperLine.match(/^(CALLE|AV|JR)\.?\s/)
AddressPrefix(upperLine) ==
    \E n \in 1..Len(AddressWords) :
        LET w == AddressWords[n]
            k == Len(w) + (IF At(upperLine, Len(w) + 1) = "." THEN 1 ELSE 0)
        IN  StartsWith(upperLine, w) /\ At(upperLine, k + 1) \in WhiteSpace

\* the exclusion words looked for in the line as written, not in upper case
VendorLineAsWritten(line) ==
    LET upperLine == ToUpperCase(line)
    IN  /\ ~ \E n \in 1..Len(SkipWords) : Includes(line, SkipWords[n])
        /\ ~ AddressPrefix(upperLine)
        /\ Len(line) < 50

\* the condition of the vendor loop's if
VendorLine(line) ==
    LET upperLine == ToUpperCase(line)
    IN  /\ ~ \E n \in 1..Len(SkipWords) : Includes(upperLine, SkipWords[n])
        /\ ~ AddressPrefix(upperLine)
        /\ Len(line) < 50

\* for (const line of lines) { if (...) { data.vendorName = line; break; } }
RECURSIVE VendorLoop(_, _)
VendorLoop(d, lines) ==
    IF lines = <<>> THEN d
    ELSE IF VendorLine(Head(lines)) THEN [d EXCEPT !.vendorName = Some(Head(lines))]
    ELSE VendorLoop(d, Tail(lines))

\* the loop without its break: the last valid candidate stays
RECURSIVE DateLoopNoBreak(_, _)
DateLoopNoBreak(d, matches) ==
    IF matches = <<>> THEN d
    ELSE IF IsValidDate(Head(matches))
    THEN DateLoopNoBreak([d EXCEPT !.date = Some(Head(matches))], Tail(matches))
    ELSE DateLoopNoBreak(d, Tail(matches))

\* for (const dateStr of allDateMatches) { if (isValidDate) { data.date = dateStr; break; } }
RECURSIVE DateLoop(_, _)
DateLoop(d, matches) ==
    IF matches = <<>> THEN d
    ELSE IF IsValidDate(Head(matches)) THEN [d EXCEPT !.date = Some(Head(matches))]
    ELSE DateLoop(d, Tail(matches))

\* if (!data.date && allDateMatches.length > 0) { ... replace(/202[6-9]/, `${currentYear}`) }
DateFallback(d, matches) ==
    IF FalsyString(d.date) /\ Len(matches) > 0 /\ matches[1] # <<>>
    THEN [d EXCEPT !.date = Some(ReplaceBadYear(matches[1], IntToString(GetFullYear)))]
    ELSE d

\* if (invoiceMatch) data.invoiceNumber = invoiceMatch[1]
InvoiceStep(d, t) ==
    LET invoiceMatch == InvoiceMatch(t)
    IN  IF invoiceMatch # Absent THEN [d EXCEPT !.invoiceNumber = invoiceMatch] ELSE d

\* if (taxMatch) data.taxAmount = this.parsePrice(taxMatch[1])
TaxStep(d, t) ==
    LET taxMatch == AmountMatch(t, TaxKeywords)
    IN  IF taxMatch # Absent THEN [d EXCEPT !.taxAmount = ParsePrice(taxMatch[1])] ELSE d

\* if (subtotalMatch) data.subtotalAmount = this.parsePrice(subtotalMatch[1])
SubtotalStep(d, t) ==
    LET subtotalMatch == AmountMatch(t, SubtotalKeywords)
    IN  IF subtotalMatch # Absent
        THEN [d EXCEPT !.subtotalAmount = ParsePrice(subtotalMatch[1])] ELSE d

\* if (totalMatch) data.amount = this.parsePrice(totalMatch[1])
TotalStep(d, t) ==
    LET totalMatch == AmountMatch(t, TotalKeywords)
    IN  IF totalMatch # Absent THEN [d EXCEPT !.amount = ParsePrice(totalMatch[1])] ELSE d

\* the filter without its test p > 0: a price of 0 stays
RECURSIVE NumericPricesWithZero(_)
NumericPricesWithZero(matches) ==
    IF matches = <<>> THEN <<>>
    ELSE LET p == ParsePrice(Head(matches))
         IN  (IF p # Absent THEN <<p[1]>> ELSE <<>>)
                 \o NumericPricesWithZero(Tail(matches))

\* matches.map(p => this.parsePrice(p)).filter(p => p !== undefined && p > 0)
RECURSIVE NumericPrices(_)
NumericPrices(matches) ==
    IF matches = <<>> THEN <<>>
    ELSE LET p == ParsePrice(Head(matches))
         IN  (IF p # Absent /\ NumLess(Zero, p[1]) THEN <<p[1]>> ELSE <<>>)
                 \o NumericPrices(Tail(matches))

\* if (!data.amount) { ... data.amount = Math.max(...numericPrices) }
TotalFallback(d, t) ==
    IF FalsyNumber(d.amount)
    THEN LET numericPrices == NumericPrices(FallbackMatches(t))
         IN  IF Len(numericPrices) > 0
             THEN [d EXCEPT !.amount = Some(MathMax(numericPrices))] ELSE d
    ELSE d

Parse(t) ==
    LET allDateMatches == AllDateMatches(t)
        d1 == VendorLoop(NewData(t), Lines(t))
        d2 == DateFallback(DateLoop(d1, allDateMatches), allDateMatches)
        d3 == InvoiceStep(d2, t)
        d4 == TotalStep(SubtotalStep(TaxStep(d3, t), t), t)
    IN  TotalFallback(d4, t)

-----------------------------------------------------------------------------
(* The router before its first request *)

\* const receipts = new Map<string, ReceiptResult>(), no request yet
InitRouter ==
    /\ receipts = <<>>
    /\ reqs = <<>>
    /\ uploads = {}
    /\ nextId = 1

-----------------------------------------------------------------------------
(* The calls *)

\* parsePrice(text)
CallParsePrice ==
    /\ pc = "idle"
    /\ price' = ParsePrice(text)
    /\ pc' = "done"
    /\ UNCHANGED <<currentYear, text, dateStr, valid, rawText, data, log>>
    /\ UNCHANGED http

\* isValidDate(dateStr)
CallIsValidDate ==
    /\ pc = "idle"
    /\ valid' = IsValidDate(dateStr)
    /\ pc' = "done"
    /\ UNCHANGED <<currentYear, text, price, dateStr, rawText, data, log>>
    /\ UNCHANGED http

\* parse(t), logged with the year of the call
CallParse(t) ==
    /\ Len(log) < MaxCalls
    /\ data' = Parse(t)
    /\ log' = Append(log, [year |-> currentYear, data |-> data'])
    /\ UNCHANGED <<currentYear, text, price, dateStr, valid, rawText, pc>>
    /\ UNCHANGED http

\* the environment's clock passes the end of a year
NewYear ==
    /\ currentYear < MaxYear
    /\ currentYear' = currentYear + 1
    /\ UNCHANGED <<text, price, dateStr, valid, rawText, data, log, pc>>
    /\ UNCHANGED http

-----------------------------------------------------------------------------
(* The inputs *)

Years == MinYear..MaxYear

\* the documents of at most n lines of a pool, the lines joined by line feeds
RECURSIVE LineSeqs(_, _)
LineSeqs(pool, n) ==
    IF n = 0 THEN {<<>>}
    ELSE LET shorter == LineSeqs(pool, n - 1)
         IN  shorter \cup {Append(ls, pool[i]) : ls \in shorter, i \in 1..Len(pool)}

Documents(pool) == {Join(ls, <<"\n">>) : ls \in LineSeqs(pool, MaxLines)}

DigitGroups == {<<"0">>, <<"1", "2">>, <<"2", "7", "2">>}

\* n times a separator and a group of digits
RECURSIVE GroupTails(_)
GroupTails(n) ==
    IF n = 0 THEN {<<>>}
    ELSE {t \o <<c>> \o g : t \in GroupTails(n - 1), c \in Separators, g \in DigitGroups}

\* the tokens given to parsePrice: groups of digits between separators, with or
\* without a first group, a currency sign before and stray punctuation after;
\* and three tokens that hold no digit
PriceTokens ==
    {pre \o head \o tail \o post :
        pre \in {<<>>, <<"$">>},
        head \in DigitGroups \cup {<<>>},
        tail \in UNION {GroupTails(n) : n \in 0..MaxGroups},
        post \in {<<>>, <<",", ".">>}}
    \cup {<<"a", "b", "c">>, <<".">>}

\* the candidates given to isValidDate: what dateRegex matches
YearStrings == {IntToString(y) : y \in {1999, 2000} \cup (MinYear..(MaxYear + 2))}

DateCandidates ==
    {a \o <<c>> \o b \o <<d>> \o e :
        a \in YearStrings \cup {<<"1">>, <<"1", "5">>, <<"1", "2", "3">>},
        c \in DateSeparators,
        b \in {<<"1">>, <<"0", "1">>},
        d \in {"-", " "},
        e \in YearStrings \cup {<<"2", "4">>, <<"1", "2", "3">>}}

\* the nine lines of the sample receipt
SampleLines ==
    << <<"S", "U", "P", "E", "R", "M", "A", "R", "K", "E", "T", " ", "A", "B",
         "C">>,
       <<"1", "2", "3", " ", "M", "a", "i", "n", " ", "S", "t", "r", "e", "e",
         "t">>,
       <<"I", "n", "v", "o", "i", "c", "e", " ", "#", "I", "N", "V", "-", "2",
         "0", "2", "4", "-", "0", "0", "1">>,
       <<"D", "a", "t", "e", ":", " ", "2", "0", "2", "4", "-", "0", "1", "-",
         "1", "5">>,
       <<"I", "t", "e", "m", " ", "1", ":", " ", "$", "5", "0", ".", "0", "0">>,
       <<"I", "t", "e", "m", " ", "2", ":", " ", "$", "3", "0", ".", "0", "0">>,
       <<"S", "u", "b", "t", "o", "t", "a", "l", ":", " ", "$", "8", "0", ".",
         "0", "0">>,
       <<"T", "a", "x", " ", "(", "1", "0", "%", ")", ":", " ", "$", "8", ".",
         "0", "0">>,
       <<"T", "O", "T", "A", "L", ":", " ", "$", "8", "8", ".", "0", "0">> >>

\* the sample without the word TOTAL in its last line
SampleNoTotalLines ==
    [i \in 1..Len(SampleLines) |->
        IF i = Len(SampleLines) THEN SubSeq(SampleLines[i], 6, Len(SampleLines[i]))
        ELSE SampleLines[i]]

SampleText == Join(SampleLines, <<"\n">>)

SampleNoTotalText == Join(SampleNoTotalLines, <<"\n">>)

\* the sample and what is left of it with some of its lines taken out
SampleDocuments ==
    {Join(SelectSeq([i \in 1..Len(lines) |-> IF i \in keep THEN lines[i] ELSE <<>>],
                    LAMBDA l : l # <<>>), <<"\n">>) :
        lines \in {SampleLines, SampleNoTotalLines},
        keep \in SUBSET (1..Len(SampleLines))}

\* lines with amounts, with and without a keyword
AmountLines ==
    << <<"T", "O", "T", "A", "L", ":", " ", "$", "0", ".", "0", "0">>,
       <<"I", "t", "e", "m", " ", "1", ":", " ", "$", "5", "0", ".", "0", "0">>,
       <<"S", "u", "b", "t", "o", "t", "a", "l", ":", " ", "$", "8", "0", ".",
         "0", "0">>,
       <<"s", "u", "m", "a", " ", "1", ".", "2", "7", "2">>,
       <<"P", "a", "g", "a", "r", ":">>,
       <<"1", "2", ",", "5", " ", "k", "g">> >>

\* lines a vendor name is looked for in: of 49 and of 50 characters the last two
VendorLines ==
    << <<"F", "A", "C", "T", "U", "R", "A", " ", "O", "R", "I", "G", "I", "N",
         "A", "L">>,
       <<"a", "v", ".", " ", "B", "o", "l", "i", "v", "a", "r", " ", "1", "2">>,
       <<" ", " ", "T", "i", "e", "n", "d", "a", " ", "L", "u", "z", " ">>,
       <<"C", "l", "i", "e", "n", "t", "e", ":", " ", "A", "n", "a">>,
       <<"a", "b", "c">>,
       <<"-", "-", "-", "-", "-">>,
       <<"X", "X", "X", "X", "X", "X", "X", "X", "X", "X", "X", "X", "X", "X",
         "X", "X", "X", "X", "X", "X", "X", "X", "X", "X", "X", "X", "X", "X",
         "X", "X", "X", "X", "X", "X", "X", "X", "X", "X", "X", "X", "X", "X",
         "X", "X", "X", "X", "X", "X", "X">>,
       <<"Y", "Y", "Y", "Y", "Y", "Y", "Y", "Y", "Y", "Y", "Y", "Y", "Y", "Y",
         "Y", "Y", "Y", "Y", "Y", "Y", "Y", "Y", "Y", "Y", "Y", "Y", "Y", "Y",
         "Y", "Y", "Y", "Y", "Y", "Y", "Y", "Y", "Y", "Y", "Y", "Y", "Y", "Y",
         "Y", "Y", "Y", "Y", "Y", "Y", "Y", "Y">> >>

\* lines with dates
DateLines ==
    << <<"F", "e", "c", "h", "a", " ", "1", "5", "/", "0", "1", "/", "2", "0",
         "2", "4">>,
       <<"0", "3", "-", "0", "4", "-", "1", "9", "9", "9">>,
       <<"0", "1", "/", "0", "2", "/", "2", "0", "2", "7", " ", "x">>,
       <<"2", "0", "2", "8", ".", "1", ".", "1", "2", " ", "2", "0", "2", "9",
         "-", "1", "-", "1", "2">>,
       <<"3", "1", " ", "1", "2", " ", "9", "8">>,
       <<"1", "9", "9", "9", "-", "0", "1", "-", "2", "0", "2", "6">>,
       <<"H", "o", "l", "a">> >>

\* lines with and without an invoice number
InvoiceLines ==
    << <<"I", "n", "v", "o", "i", "c", "e", " ", "#", "I", "N", "V", "-",
         "2", "0", "2", "4", "-", "0", "0", "1">>,
       <<"R", "e", "c", "e", "i", "p", "t", ":", " ", "1", "2", "3">>,
       <<"F", "a", "c", "t", "u", "r", "a", " ", "o", "r", "i", "g", "i",
         "n", "a", "l">>,
       <<"f", "o", "l", "i", "o", " ", " ", ".", " ", "A", "-", "7">>,
       <<"c", "h", "k", " ", "1", "2">>,
       <<"N", "u", "m", "b", "e", "r", " ", "5", "5">>,
       <<"H", "o", "l", "a">> >>

\* lines with numbers the fallback finds or misses, the last with a total keyword
FallbackLines ==
    << <<"I", "t", "e", "m", " ", "1", ":", " ", "$", "5", "0", ".", "0",
         "0">>,
       <<"1", "2", ",", "5", " ", "k", "g">>,
       <<"0", ".", "0", "0", " ", "x">>,
       <<"R", "e", "f", " ", "1", "2", "3", "4">>,
       <<"1", ".", "2", "7", "2", " ", "u">>,
       <<"H", "o", "l", "a">>,
       <<"s", "u", "m", "a", " ", "9">> >>

\* the texts of the calls that are made more than once
RepeatedTexts ==
    {DateLines[3], DateLines[4], Join(<<VendorLines[3], AmountLines[1]>>, <<"\n">>)}

\* a text parsed between two calls on one text
OtherTexts == {Join(<<VendorLines[1], DateLines[1], AmountLines[4]>>, <<"\n">>)}

-----------------------------------------------------------------------------
(* The specifications *)

InitCalls(texts) ==
    /\ currentYear \in Years
    /\ rawText \in texts
    /\ data = NoData
    /\ log = <<>>
    /\ InitRouter
    /\ text = <<>>
    /\ price = Absent
    /\ dateStr = <<>>
    /\ valid = FALSE
    /\ pc = "idle"

\* parse called again and again on one text, other calls and new years between
Init == InitCalls(RepeatedTexts)

Next ==
    \/ \E t \in {rawText} \cup OtherTexts : CallParse(t)
    \/ NewYear

Spec == Init /\ [][Next]_vars

\* one call of parse
FirstCall == Len(log) = 0 /\ CallParse(rawText)

SpecSample == InitCalls(SampleDocuments) /\ [][FirstCall]_vars

SpecAmount == InitCalls(Documents(AmountLines)) /\ [][FirstCall]_vars

SpecVendor == InitCalls(Documents(VendorLines)) /\ [][FirstCall]_vars

SpecDate == InitCalls(Documents(DateLines)) /\ [][FirstCall]_vars

SpecInvoice == InitCalls(Documents(InvoiceLines)) /\ [][FirstCall]_vars

SpecFallback == InitCalls(Documents(FallbackLines)) /\ [][FirstCall]_vars

\* one call of parsePrice
InitPrice ==
    /\ text \in PriceTokens
    /\ price = Absent
    /\ pc = "idle"
    /\ currentYear = MinYear
    /\ dateStr = <<>>
    /\ valid = FALSE
    /\ rawText = <<>>
    /\ data = NoData
    /\ log = <<>>
    /\ InitRouter

SpecPrice == InitPrice /\ [][CallParsePrice]_vars

\* one call of isValidDate
InitValid ==
    /\ dateStr \in DateCandidates
    /\ currentYear \in Years
    /\ valid = FALSE
    /\ pc = "idle"
    /\ text = <<>>
    /\ price = Absent
    /\ rawText = <<>>
    /\ data = NoData
    /\ log = <<>>
    /\ InitRouter

SpecValid == InitValid /\ [][CallIsValidDate]_vars

-----------------------------------------------------------------------------
(* The routes *)

\* receipts.has(k)
MapHas(m, k) == \E i \in 1..Len(m) : m[i].key = k

\* receipts.get(k): the value under k, absent (undefined) when there is none
MapGet(m, k) ==
    IF MapHas(m, k) THEN Some(m[Least({i \in 1..Len(m) : m[i].key = k})].value)
    ELSE Absent

\* receipts.set(k, v): a new key goes to the end, a known key keeps its place
\* and gets the new value
MapSet(m, k, v) ==
    IF MapHas(m, k)
    THEN [i \in 1..Len(m) |-> IF m[i].key = k THEN [key |-> k, value |-> v] ELSE m[i]]
    ELSE Append(m, [key |-> k, value |-> v])

\* Array.from(receipts.values())
MapValues(m) == [i \in 1..Len(m) |-> m[i].value]

\* the names of the files uploaded
Filenames == {"receipt.png"}

\* the text extractText returns
OcrTexts == {DateLines[7]}

\* the ids asked for: those given out so far and the one not given out yet
RequestedIds == 1..nextId

\* a request as it arrives
NewRequest(method) ==
    [method |-> method, file |-> Absent, param |-> 0, id |-> 0, pc |-> "done",
     ocr |-> "none", receiptResult |-> Absent, status |-> 0, body |-> Absent]

\* res.status(status).json(body)
Answered(r, status, body) ==
    [r EXCEPT !.pc = "done", !.status = status, !.body = Some(body)]

\* POST /api/receipts without a file: the handler throws AppError(400) and its
\* catch answers 400; there is no file to delete
PostNoFile ==
    /\ Len(reqs) < MaxRequests
    /\ reqs' = Append(reqs, Answered(NewRequest("POST"), 400, "No file uploaded"))
    /\ UNCHANGED <<receipts, uploads, nextId>>

\* POST /api/receipts with a file the fileFilter lets through (a file it refuses
\* never reaches the handler): the file is on the disk, the handler takes an id
\* and waits for extractText
PostFile(name) ==
    /\ Len(reqs) < MaxRequests
    /\ reqs' = Append(reqs, [NewRequest("POST") EXCEPT !.file = Some(name),
                                 !.id = nextId, !.pc = "extractText"])
    /\ uploads' = uploads \cup {Len(reqs) + 1}
    /\ nextId' = nextId + 1
    /\ UNCHANGED receipts

\* the handler's receiptResult for the text t
StoreResult(r, t) ==
    [id |-> r.id, filename |-> r.file[1], uploadedAt |-> currentYear, data |-> Parse(t)]

\* extractText returns t: the text is parsed, the result stored under the id,
\* and the handler waits for the file to be deleted
ExtractTextReturns(n, t) ==
    /\ reqs[n].pc = "extractText"
    /\ LET receiptResult == StoreResult(reqs[n], t)
       IN  /\ receipts' = MapSet(receipts, reqs[n].id, receiptResult)
           /\ reqs' = [reqs EXCEPT ![n].pc = "unlink", ![n].ocr = "returned",
                                   ![n].receiptResult = Some(receiptResult)]
    /\ UNCHANGED <<uploads, nextId>>

\* a record without text stored before the catch is entered
ExtractTextThrowsStored(n) ==
    /\ reqs[n].pc = "extractText"
    /\ receipts' = MapSet(receipts, reqs[n].id, StoreResult(reqs[n], <<>>))
    /\ reqs' = [reqs EXCEPT ![n].pc = "cleanup", ![n].ocr = "threw"]
    /\ UNCHANGED <<uploads, nextId>>

\* extractText throws: the catch waits for the file to be deleted
ExtractTextThrows(n) ==
    /\ reqs[n].pc = "extractText"
    /\ reqs' = [reqs EXCEPT ![n].pc = "cleanup", ![n].ocr = "threw"]
    /\ UNCHANGED <<receipts, uploads, nextId>>

\* fs.unlink settles, the file deleted or not: after the result was stored the
\* handler answers 201 with it, in the catch it answers 500
UnlinkSettles(n, deleted) ==
    /\ reqs[n].pc \in {"unlink", "cleanup"}
    /\ uploads' = IF deleted THEN uploads \ {n} ELSE uploads
    /\ reqs' = [reqs EXCEPT ![n] =
                   IF reqs[n].pc = "unlink"
                   THEN Answered(reqs[n], 201, reqs[n].receiptResult[1])
                   ELSE Answered(reqs[n], 500, "Failed to process receipt")]
    /\ UNCHANGED <<receipts, nextId>>

\* GET /api/receipts/:id
GetReceipt(id) ==
    /\ Len(reqs) < MaxRequests
    /\ LET receipt == MapGet(receipts, id)
           r == [NewRequest("GET") EXCEPT !.param = id]
       IN  reqs' = Append(reqs, IF FalsyString(receipt)
                                THEN Answered(r, 404, "Receipt not found")
                                ELSE Answered(r, 200, receipt[1]))
    /\ UNCHANGED <<receipts, uploads, nextId>>

\* GET /api/receipts
ListReceipts ==
    /\ Len(reqs) < MaxRequests
    /\ reqs' = Append(reqs, Answered(NewRequest("LIST"), 200, MapValues(receipts)))
    /\ UNCHANGED <<receipts, uploads, nextId>>

\* no call of the parser's methods is in progress
InitHttp ==
    /\ InitRouter
    /\ currentYear = MinYear
    /\ text = <<>>
    /\ price = Absent
    /\ dateStr = <<>>
    /\ valid = FALSE
    /\ rawText = <<>>
    /\ data = NoData
    /\ log = <<>>
    /\ pc = "idle"

NextHttp ==
    /\ \/ PostNoFile
       \/ \E name \in Filenames : PostFile(name)
       \/ \E n \in 1..Len(reqs), t \in OcrTexts : ExtractTextReturns(n, t)
       \/ \E n \in 1..Len(reqs) : ExtractTextThrows(n)
       \/ \E n \in 1..Len(reqs), deleted \in BOOLEAN : UnlinkSettles(n, deleted)
       \/ \E id \in RequestedIds : GetReceipt(id)
       \/ ListReceipts
    /\ UNCHANGED <<currentYear, text, price, dateStr, valid, rawText, data, log, pc>>

\* requests arrive and the waits of their handlers end in any order
SpecHttp == InitHttp /\ [][NextHttp]_vars

-----------------------------------------------------------------------------
(* The sample receipt *)

\* C1: parse of the nine-line sample text returns vendorName "SUPERMARKET ABC",
\* invoiceNumber "INV-2024-001", a date that contains "2024-01-15",
\* subtotalAmount 80.00, taxAmount 8.00 and amount 88.00.
C1_SampleRecord ==
    (Len(log) = 1 /\ rawText = SampleText) =>
        /\ data.vendorName = Some(SampleLines[1])
        /\ data.invoiceNumber = Some(SubSeq(SampleLines[3], 10, 21))
        /\ data.date # Absent
        /\ Includes(data.date[1], SubSeq(SampleLines[4], 7, 16))
        /\ data.subtotalAmount = Some(MkNum(<<"8", "0">>, <<"0", "0">>))
        /\ data.taxAmount = Some(MkNum(<<"8">>, <<"0", "0">>))
        /\ data.amount = Some(MkNum(<<"8", "8">>, <<"0", "0">>))

\* C2: with the word TOTAL taken out of the sample's last line and every number
\* kept, parse returns amount 88.00 (through the max-value fallback).
C2_FallbackAmount ==
    (Len(log) = 1 /\ rawText = SampleNoTotalText) =>
        data.amount = Some(MkNum(<<"8", "8">>, <<"0", "0">>))

-----------------------------------------------------------------------------
(* The total and its fallback *)

\* C3: whenever the total keyword pattern matches, the amount returned is the
\* parsePrice value of the token it captured, also when that value is 0; the
\* maximum of the text's other numbers never replaces it.
C3_KeywordTotalKept ==
    (Len(log) = 1 /\ AmountMatch(rawText, TotalKeywords) # Absent) =>
        data.amount = ParsePrice(AmountMatch(rawText, TotalKeywords)[1])

-----------------------------------------------------------------------------
(* Determinism *)

\* C4 as stated: any two calls of parse on one text return the same record,
\* whatever happened between them, a change of the current year included.
C4_SameTextSameRecord ==
    \A i, j \in 1..Len(log) :
        log[i].data.rawText = log[j].data.rawText => log[i].data = log[j].data

\* C4 as amended: any two calls of parse on one text made while the clock shows
\* the same year return the same record, whatever other calls were made between.
C4_SameTextSameYearSameRecord ==
    \A i, j \in 1..Len(log) :
        (log[i].data.rawText = log[j].data.rawText /\ log[i].year = log[j].year)
            => log[i].data = log[j].data

\* two calls on one text in one year, a call on another text between them, and
\* the date found
C4_Witness ==
    \E i, j, k \in 1..Len(log) :
        /\ i < k /\ k < j
        /\ log[i].data.rawText = log[j].data.rawText
        /\ log[k].data.rawText # log[i].data.rawText
        /\ log[i].year = log[j].year
        /\ log[i].data.date # Absent
        /\ log[i].data = log[j].data

-----------------------------------------------------------------------------
(* parsePrice *)

DigitsOf(s) == SelectSeq(s, LAMBDA c : c \in Digits)

\* the last position of s that holds a separator, 0 when none does
LastSeparator(s) ==
    Len(s) + 1 - Least({k \in 1..Len(s) : s[Len(s) + 1 - k] \in Separators} \cup {Len(s) + 1})

\* numberPattern captures the whole of t
NumberToken(t) == At(t, 1) \in Digits /\ NumberEnd(t, 1) = Len(t) + 1

\* s is a decimal numeral from end to end: digits, then optionally a point and
\* digits, a digit on one side of the point at least
DecimalNumeral(s) ==
    LET a == DigitRun(s, 1)
        b == IF At(s, a + 1) = "." THEN DigitRun(s, a + 2) ELSE 0
    IN  /\ a + b > 0
        /\ Len(s) = a + (IF At(s, a + 1) = "." THEN 1 + b ELSE 0)

\* C5: for every token numberPattern captures whose cleaned form holds both '.'
\* and ',', the symbol that comes last is the decimal separator and the other
\* symbol is dropped: the digits before the last separator are the integer part,
\* those after it the fraction.
C5_LastSeparatorWins ==
    LET c == CleanText(text)
        p == LastSeparator(c)
    IN  (/\ pc = "done"
         /\ NumberToken(text)
         /\ Includes(c, <<",">>) /\ Includes(c, <<".">>))
        => price = Some(MkNum(DigitsOf(SubSeq(c, 1, p - 1)), SubSeq(c, p + 1, Len(c))))

\* C6: for every token whose cleaned form holds one kind of separator only: when
\* three digits follow the last separator, every separator is removed and the
\* result is the integer of the digits left; otherwise the separator is the
\* decimal point, and with one separator the result is the digits before it
\* point the digits after it.
C6_ThreeDigitRule ==
    LET c == CleanText(text)
        p == LastSeparator(c)
        one == Cardinality({i \in 1..Len(c) : c[i] \in Separators}) = 1
    IN  (/\ pc = "done"
         /\ c # <<>>
         /\ Includes(c, <<",">>) # Includes(c, <<".">>))
        => IF Len(c) - p = 3
           THEN price = Some(MkNum(DigitsOf(c), <<>>))
           ELSE /\ NormalizedNum(c) = [i \in 1..Len(c) |->
                                          IF c[i] \in Separators THEN "." ELSE c[i]]
                /\ one => price = Some(MkNum(SubSeq(c, 1, p - 1), SubSeq(c, p + 1, Len(c))))

\* "$12.272" gave 12272 and not 12.272
C6_Witness ==
    /\ pc = "done"
    /\ text = <<"$", "1", "2", ".", "2", "7", "2">>
    /\ price = Some(MkNum(<<"1", "2", "2", "7", "2">>, <<>>))

\* C7: parsePrice returns absent whenever no number can be parsed: for the empty
\* token, for a token without a digit, and for a token whose normalized string
\* is no decimal numeral; it never returns the number of a prefix of it.
C7_AbsentWhenNotANumeral ==
    LET c == CleanText(text)
    IN  (pc = "done" /\ (c = <<>> \/ ~ DecimalNumeral(NormalizedNum(c))))
        => price = Absent

-----------------------------------------------------------------------------
(* isValidDate *)

\* the year of the first run of exactly four digits of s, absent when s has none
FirstYear(s) ==
    LET runs == {i \in 1..Len(s) :
                    /\ s[i] \in Digits /\ At(s, i - 1) \notin Digits
                    /\ DigitRun(s, i) = 4}
    IN  IF runs = {} THEN Absent
        ELSE Some(ParseInt(SubSeq(s, Least(runs), Least(runs) + 3)))

\* the first run of four digits of s is a year from 2000 to y + 1
YearInRange(s, y) ==
    FirstYear(s) # Absent /\ FirstYear(s)[1] >= 2000 /\ FirstYear(s)[1] <= y + 1

\* C8: isValidDate accepts a candidate exactly when its first run of four digits
\* is a year y with 2000 <= y <= currentYear + 1; so it rejects 1999 and
\* currentYear + 2, rejects a candidate without four digits in a row, and
\* accepts 2000 and currentYear + 1.
C8_ValidYearRange ==
    pc = "done" => (valid <=> YearInRange(dateStr, currentYear))

\* a candidate of the year after the current one was accepted
C8_Witness ==
    /\ pc = "done"
    /\ valid
    /\ FirstYear(dateStr) = Some(currentYear + 1)

-----------------------------------------------------------------------------
(* The vendor *)

\* the trimmed lines of t that are longer than 3 and hold a letter or a digit
CandidateLines(t) ==
    LET split == Split(t, "\n")
    IN  SelectSeq([i \in 1..Len(split) |-> Trim(split[i])],
                  LAMBDA l : Len(l) > 3 /\ \E i \in 1..Len(l) : l[i] \in AlphaNum)

\* no exclusion word in the line in upper case, no address prefix, under 50 long
Qualifies(line) ==
    /\ \A n \in 1..Len(SkipWords) : ~ Includes(ToUpperCase(line), SkipWords[n])
    /\ ~ AddressPrefix(ToUpperCase(line))
    /\ Len(line) < 50

\* C9: vendorName is the first, from the top, of the trimmed lines longer than 3
\* with a letter or a digit that holds no exclusion word (in upper case), does
\* not start with an address prefix and is shorter than 50; it is absent when
\* no line qualifies.  "FACTURA ORIGINAL" is never the vendor.
C9_VendorIsFirstQualifyingLine ==
    LET ls == CandidateLines(rawText)
        q == {i \in 1..Len(ls) : Qualifies(ls[i])}
    IN  Len(log) = 1 =>
            /\ data.vendorName = (IF q = {} THEN Absent ELSE Some(ls[Least(q)]))
            /\ data.vendorName # Some(VendorLines[1])

\* "FACTURA ORIGINAL" came first, an address next, and the line after them is
\* the vendor
C9_Witness ==
    /\ Len(log) = 1
    /\ rawText = Join(<<VendorLines[1], VendorLines[2], VendorLines[3]>>, <<"\n">>)
    /\ data.vendorName = Some(Trim(VendorLines[3]))

-----------------------------------------------------------------------------
(* The date *)

\* the first run of four digits of s that is a year from 2026 to 2029 replaced
\* by the year y; s when it has none
YearCorrected(s, y) ==
    LET runs == {i \in 1..Len(s) :
                    /\ s[i] \in Digits /\ At(s, i - 1) \notin Digits
                    /\ DigitRun(s, i) = 4
                    /\ ParseInt(SubSeq(s, i, i + 3)) \in 2026..2029}
    IN  IF runs = {} THEN s
        ELSE SubSeq(s, 1, Least(runs) - 1) \o IntToString(y)
                 \o SubSeq(s, Least(runs) + 4, Len(s))

\* C10: date is the first of the candidates found in the raw text, in the order
\* they appear, that the validator accepts; when none is accepted and there is
\* one, date is the first candidate with a year from 2026 to 2029 replaced by
\* the current year (unchanged when it holds none); date is absent exactly when
\* the text holds no candidate.
C10_DateIsFirstValidOrCorrected ==
    LET cs == AllDateMatches(rawText)
        v == {i \in 1..Len(cs) : YearInRange(cs[i], currentYear)}
    IN  Len(log) = 1 =>
            /\ data.date = (IF cs = <<>> THEN Absent
                            ELSE IF v # {} THEN Some(cs[Least(v)])
                            ELSE Some(YearCorrected(cs[1], currentYear)))
            /\ (data.date = Absent <=> cs = <<>>)

\* no candidate was accepted, and the first one came back with its year replaced
C10_Witness ==
    LET cs == AllDateMatches(rawText)
    IN  /\ Len(log) = 1
        /\ Len(cs) > 1
        /\ \A i \in 1..Len(cs) : ~ YearInRange(cs[i], currentYear)
        /\ data.date # Some(cs[1])
        /\ data.date = Some(YearCorrected(cs[1], currentYear))

-----------------------------------------------------------------------------
(* The invoice number *)

\* the aliases the invoice number is announced by
AliasKeywords ==
    << <<"i", "n", "v", "o", "i", "c", "e">>, <<"f", "a", "c", "t", "u", "r", "a">>,
       <<"t", "i", "c", "k", "e", "t">>, <<"f", "o", "l", "i", "o">>,
       <<"r", "e", "c", "e", "i", "p", "t">>, <<"n", "u", "m", "b", "e", "r">> >>

\* upper-case letters, digits and the hyphen
TokenChars == UpperLetters \cup Digits \cup {"-"}

\* the token after an alias (in any case) at position i of s: white space, an
\* optional separator and white space may stand between them
AliasTokenAt(s, i) ==
    LET k == AlternationAt(s, i, AliasKeywords)
        j == SkipSpace(s, i + k)
        q == IF At(s, j) \in {":", "#", "."} THEN SkipSpace(s, j + 1) ELSE j
        n == Least({e \in q..Len(s) : s[e] \notin TokenChars} \cup {Len(s) + 1}) - q
    IN  IF k # 0 /\ n > 0 THEN Some(SubSeq(s, q, q + n - 1)) ELSE Absent

\* the token after the first alias of s that is followed by one
AliasToken(s) ==
    LET starts == {i \in 1..Len(s) : AliasTokenAt(s, i) # Absent}
    IN  IF starts = {} THEN Absent ELSE AliasTokenAt(s, Least(starts))

\* C11: when an alias among invoice, factura, ticket, folio, receipt, number (in
\* any case) is followed by an optional separator and a token, invoiceNumber is
\* the first such token, made of upper-case letters, digits and hyphens only;
\* invoiceNumber is absent when no alias is followed by such a token.
C11_InvoiceNumberIsFirstAliasToken ==
    Len(log) = 1 =>
        /\ data.invoiceNumber = AliasToken(rawText)
        /\ data.invoiceNumber # Absent =>
               \A i \in 1..Len(data.invoiceNumber[1]) :
                   data.invoiceNumber[1][i] \in TokenChars

-----------------------------------------------------------------------------
(* The fallback's amount *)

\* the parsePrice values above 0 of the number tokens of t
PositivePrices(t) ==
    LET tokens == FallbackMatches(t)
        prices == {ParsePrice(tokens[i]) : i \in 1..Len(tokens)} \ {Absent}
    IN  {p[1] : p \in {x \in prices : x[1] # Zero /\ x[1] # NaN}}

\* C12: when the total keyword pattern matches nothing, amount is the greatest
\* of the parsePrice values above 0 of the text's number tokens, and is absent
\* when no token has a value above 0; so an amount the fallback sets is above 0
\* and no positive price of the text is greater.
C12_FallbackIsMaxPositive ==
    LET prices == PositivePrices(rawText)
    IN  (Len(log) = 1 /\ AmountMatch(rawText, TotalKeywords) = Absent) =>
            IF prices = {} THEN data.amount = Absent
            ELSE /\ data.amount # Absent
                 /\ data.amount[1] \in prices
                 /\ NumLess(Zero, data.amount[1])
                 /\ \A v \in prices : ~ NumLess(data.amount[1], v)

\* no total keyword, three tokens with a value above 0, and the greatest of
\* them, not the first, is the amount
C12_Witness ==
    /\ Len(log) = 1
    /\ rawText = Join(<<FallbackLines[2], FallbackLines[1], FallbackLines[3]>>, <<"\n">>)
    /\ AmountMatch(rawText, TotalKeywords) = Absent
    /\ Cardinality(PositivePrices(rawText)) = 3
    /\ data.amount = Some(MkNum(<<"5", "0">>, <<>>))

-----------------------------------------------------------------------------
(* The store of the routes *)

\* request n is a POST that carried a file and whose text was extracted and parsed
StoredBy(n) ==
    reqs[n].method = "POST" /\ reqs[n].file # Absent /\ reqs[n].ocr = "returned"

\* every entry of the store was put there by such a POST, under its id
OnlySuccessfulPostsStored ==
    \A i \in 1..Len(receipts) :
        \E n \in 1..Len(reqs) :
            /\ StoredBy(n)
            /\ reqs[n].id = receipts[i].key
            /\ receipts[i].value = reqs[n].receiptResult[1]

\* request n fails in this step: it is answered 400 or 500, or its extractText throws
FailsNow(n) ==
    /\ reqs'[n].method = "POST"
    /\ \/ n > Len(reqs) /\ reqs'[n].status \in {400, 500}
       \/ n <= Len(reqs) /\ reqs[n].status = 0 /\ reqs'[n].status \in {400, 500}
       \/ n <= Len(reqs) /\ reqs[n].ocr = "none" /\ reqs'[n].ocr = "threw"

\* a step in which a POST fails leaves the store as it was
FailedPostKeepsStore ==
    (\E n \in 1..Len(reqs') : FailsNow(n)) => receipts' = receipts

\* no step removes an entry or gives a key another value
EntriesKept ==
    /\ Len(receipts') >= Len(receipts)
    /\ \A i \in 1..Len(receipts) : receipts'[i] = receipts[i]

\* a GET by id answered in this step is answered 404 when the id is not in the
\* store, where it would be had it ever been stored, and 200 otherwise
NotFoundIffNeverStored ==
    \A n \in (Len(reqs) + 1)..Len(reqs') :
        reqs'[n].method = "GET" =>
            /\ reqs'[n].status \in {200, 404}
            /\ reqs'[n].status = 404 <=> ~ MapHas(receipts, reqs'[n].param)
            /\ reqs'[n].status = 200 =>
                   reqs'[n].body = MapGet(receipts, reqs'[n].param)

\* C13: whatever requests arrive and however their handlers interleave, the
\* store holds a receipt only if a POST carried a file and its text was
\* extracted and parsed; a POST without a file (400) or whose extractText fails
\* (500) leaves the store unchanged; no entry is removed or overwritten; and
\* GET /api/receipts/:id answers 404 exactly for the ids never stored.
C13_StoreConsistency ==
    /\ []OnlySuccessfulPostsStored
    /\ [][FailedPostKeepsStore /\ EntriesKept /\ NotFoundIffNeverStored]_vars

\* a POST stored its receipt, another was answered 500, a GET for the id of that
\* one was answered 404 and a GET for the stored one 200
C13_Witness ==
    \E a, b, c, d \in 1..Len(reqs) :
        /\ StoredBy(a) /\ MapHas(receipts, reqs[a].id)
        /\ reqs[b].method = "POST" /\ reqs[b].status = 500
        /\ reqs[c].method = "GET" /\ reqs[c].param = reqs[b].id /\ reqs[c].status = 404
        /\ reqs[d].method = "GET" /\ reqs[d].param = reqs[a].id /\ reqs[d].status = 200

====
